---- MODULE Spec2Model ----
(***************************************************************************)
(* flat-seeker: the scheduler loop of bot.py (periodic_parser, send_apt)   *)
(* together with the crawl control of parser.py (fetch_new_apartments,     *)
(* AruodasParser.parse_all_pages), the published-ids file on disk, the     *)
(* Telegram channel as a nondeterministic responder, and process crashes.  *)
(* A listing is represented by its id; its display fields do not influence *)
(* control flow.                                                           *)
(* sent_count of periodic_parser is only logged and is left out.  Values   *)
(* that the code does not read again (locals of a returned function, the   *)
(* crawl result of an ended cycle) are reset where they die.               *)
(***************************************************************************)
EXTENDS Integers, Sequences, FiniteSets, TLC

(* ---------- bounds of the model ---------- *)
NumIds == 2
MaxPerPage == 2
MaxPagesBound == 2
RetryAfterMax == 2
MaxLeaked == 2

(* ---------- program constants ---------- *)
max_retries == 5
delay == 3
PAGE_PAUSE == 2
POLL_INTERVAL == 3600
max_pages_default == 3

Ids == 1..NumIds
\* a raw list-row-v2 element: a listing id for a complete row, BAD for a row
\* without data-id, BROKEN for a row with a data-id that lacks an element
\* _parse_apartment dereferences (no <a href>, an address div without <h3>)
BAD == 0
BROKEN == 0 - 1
RawRecords == Ids \cup {BAD, BROKEN}
RECURSIVE SeqsUpTo(_, _)
SeqsUpTo(S, n) ==
    IF n = 0 THEN {<<>>}
    ELSE LET shorter == SeqsUpTo(S, n - 1)
         IN shorter \cup {Append(s, x) : s \in {t \in shorter : Len(t) = n - 1}, x \in S}
RawPages == SeqsUpTo(RawRecords, MaxPerPage)
RetryAfterVals == 1..RetryAfterMax

Range(s) == {s[i] : i \in 1..Len(s)}

VARIABLES
    pc,             \* position of the process in periodic_parser / fetch_new_apartments / send_apt
    disk,           \* published_ids.json: [st: "absent" | "ok" | "corrupt", ids]
    published_ids,  \* periodic_parser's in-memory set
    new_apts,       \* result of fetch_new_apartments: [none |-> BOOLEAN, apts |-> Seq(Ids)]
    max_pages,      \* parse_all_pages: config.get("max_pages", 3)
    page,           \* parse_all_pages: loop variable
    all_apartments, \* parse_all_pages
    seen_ids,       \* parse_all_pages
    idx,            \* periodic_parser: position of `for apt in new_apts`
    retries,        \* send_apt
    retry_after,    \* send_apt: e.retry_after of the pending backoff
    cfg_file,       \* config.json: [st: "absent" | "partial" | "ok", search_params, top,
                    \* city, type, max_pages]; top is the set of top-level keys besides
                    \* search_params
    config,         \* AruodasParser.config of the running crawl
    open_sessions,  \* the Chrome sessions this process has started and not quit
    upd_config,     \* cmd_start, update_config_param: the dict that the handler is about
                    \* to write or is writing (lines 77, 52), NoConfig when none is
    cmd_pc,         \* the position of the handler the event loop is running: "idle",
                    \* "start_tested" (line 75 found no file), "start_open" (inside the
                    \* write_text of line 77), "start_written" (before line 80),
                    \* "set_read" (line 49 read the file), "set_open" (inside the
                    \* write_text of line 52)
    site,           \* periodic_parser: line of the asyncio.sleep(POLL_INTERVAL) that
                    \* is running (197, 202 or 228), 0 when none is
    \* ----- observation (history) variables, never read by the program -----
    cycleStart,     \* the file as the current cycle found it when it loaded it
    acceptedCycle,  \* ids the channel accepted in the current cycle
    failedCycle,    \* ids for which send_apt returned False in the current cycle
    attemptedCycle, \* ids handed to send_apt in the current cycle, in order
    everAccepted,   \* ids the channel has ever accepted
    dupAccepted,    \* the channel accepted, in the current cycle, an id it had accepted before
    owed,           \* ids that failed in an earlier cycle and were not accepted since
    prevCrawl,      \* the crawl result of the cycle before, when that cycle ran its
                    \* delivery loop to the end and the process lived on; <<>> otherwise
    attempts,       \* send_message calls made for the current listing
    nRateLimited,   \* RateLimited answers received for the current listing
    nBackoffs,      \* backoff sleeps performed for the current listing
    backoffExact,   \* every backoff sleep of the current listing lasted the channel's hint
    delayed,        \* seconds of inter-message delay slept for the current listing
    cmdSeen,        \* flips at every admin command, so that a command that changes
                    \* nothing is a step too
    lastCmd,        \* the last command handled, where the admin surface is under
                    \* observation: its name, sender, arguments, config.json as the
                    \* handler found it, and the answer sent ("" while it runs)
    waited,         \* seconds of poll sleep since the current cycle began
    failedPage,     \* page on which the crawl of the current cycle failed, 0 if none
    crawlLog,       \* the running or just returned parse_all_pages call: the pages it
                    \* requested, all_apartments before the last page, the listings of
                    \* the last page, the dicts it holds, its max_pages, the seconds
                    \* of pacing sleep, the number of list-row-v2 elements of the
                    \* last page and how many of them carry a data-id
    cycleKind       \* "run", or how the cycle ended: "corrupt", "none", "empty",
                    \* "delivered", "error"

progVars == <<pc, disk, published_ids, new_apts, max_pages, page, all_apartments,
              seen_ids, idx, retries, retry_after, cfg_file, config, upd_config,
              cmd_pc, open_sessions, site>>
obsVars == <<cycleStart, acceptedCycle, failedCycle, attemptedCycle, everAccepted,
             dupAccepted, owed, prevCrawl, attempts, nRateLimited, nBackoffs, backoffExact,
             delayed, cmdSeen, lastCmd, waited, failedPage, crawlLog, cycleKind>>
vars == <<progVars, obsVars>>

NoResult == [none |-> FALSE, apts |-> <<>>]
NoFile == [st |-> "absent", ids |-> {}]
\* no parse_all_pages of parser_playwright.py runs beside the crawl
NoShadow ==
    [returned |-> TRUE, max_pages |-> 0, page_num |-> 1, all_apartments |-> <<>>,
     seen_ids |-> {}, fetched |-> <<>>, result |-> NoResult]
\* no parse_all_pages call is under observation
EmptyLog ==
    [fetched |-> <<>>, urls |-> <<>>, before |-> <<>>, last |-> <<>>, rows |-> <<>>,
     maxp |-> 0, paced |-> 0, raw_rows |-> 0, raw_ids |-> 0, raw_valid |-> 0,
     pw |-> NoShadow]

(* ---------- config.json ---------- *)

NoParams == [k \in {} |-> 0]
\* no file, and the config of no parser
NoConfig ==
    [st |-> "absent", search_params |-> NoParams, top |-> {}, city |-> "", type |-> "",
     max_pages |-> 0]

\* _load_config, lines 44-55
DefaultConfig ==
    [st |-> "ok",
     search_params |-> ("FRadius" :> 5) @@ ("FAreaOverAllMin" :> 60) @@ ("FPriceMax" :> 1200)
                       @@ ("detailed_search" :> 1) @@ ("pet_friendly" :> 1),
     top |-> {"city", "type", "max_pages"},
     city |-> "vilniuje",
     type |-> "butu-nuoma",
     max_pages |-> 3]

\* cmd_start, line 76
StartConfig ==
    [st |-> "ok",
     search_params |-> ("FRadius" :> 5) @@ ("FAreaOverAllMin" :> 60) @@ ("FPriceMax" :> 1200),
     top |-> {},
     city |-> "",
     type |-> "",
     max_pages |-> 0]

\* a config.json the operator has put in place: every key, some max_pages
OperatorConfigs == {[DefaultConfig EXCEPT !.max_pages = n] : n \in 1..MaxPagesBound}

\* config.json when it does not parse: empty between the open(mode="w") of a
\* write_text and the end of the write, or a text with the rest of a longer one
\* behind it
PartialFile == [NoConfig EXCEPT !.st = "partial"]

\* the length of an int as json.dumps writes it
RECURSIVE NumDigits(_)
NumDigits(n) == IF n < 10 THEN 1 ELSE 1 + NumDigits(n \div 10)

\* the lines of the members of search_params in json.dumps(indent=2): four
\* spaces, the key in quotes, ": ", the value, the newline
RECURSIVE ParamLines(_, _)
ParamLines(sp, keys) ==
    IF keys = {} THEN 0
    ELSE LET k == CHOOSE x \in keys : TRUE
         IN (4 + Len(k) + 2 + 2 + NumDigits(sp[k]) + 1) + ParamLines(sp, keys \ {k})

\* the length of the value of a top-level key as json.dumps writes it
TopValueLen(file, k) ==
    CASE k = "city" -> Len(file.city) + 2
      [] k = "type" -> Len(file.type) + 2
      [] k = "max_pages" -> NumDigits(file.max_pages)

\* the lines of the top-level keys after search_params: the comma that ends the
\* member before, the newline, two spaces, the key in quotes, ": ", the value
RECURSIVE TopLines(_, _)
TopLines(file, keys) ==
    IF keys = {} THEN 0
    ELSE LET k == CHOOSE x \in keys : TRUE
         IN (1 + 1 + 2 + Len(k) + 2 + 2 + TopValueLen(file, k))
            + TopLines(file, keys \ {k})

\* the number of bytes of config.json: json.dumps(config, ensure_ascii=False,
\* indent=2) for a complete file (parser.py 62-63, bot.py 52 and 77), nothing for a
\* file that open(mode="w") has just truncated
TextSize(file) ==
    IF file.st # "ok" THEN 0
    ELSE LET keys == DOMAIN file.search_params
             n == Cardinality(keys)
         IN 2 + 2 + Len("search_params") + 2 + 2
            + (IF n = 0 THEN 2
               ELSE 1 + 1 + ParamLines(file.search_params, keys) + (n - 1) + 2 + 1)
            + TopLines(file, file.top)
            + 2

\* write_text after its open(mode="w"): the text goes to offset 0 of the file as it
\* is by now. What another writer has written since the open stays beyond the
\* end of the text, and then the file does not parse
WriteText(file, text) ==
    IF TextSize(file) <= TextSize(text) THEN text ELSE PartialFile

\* variant: the file is written back with the defaults whenever it is loaded
LoadConfigRewrites(file) ==
    [raised |-> file.st = "partial",
     config |-> IF file.st = "absent" THEN DefaultConfig ELSE file,
     file |-> DefaultConfig]

\* variant: what the file holds is taken as the config, whatever it is
LoadConfigLenient(file) ==
    [raised |-> FALSE,
     config |-> IF file.st = "absent" THEN DefaultConfig ELSE file,
     file |-> IF file.st = "absent" THEN DefaultConfig ELSE file]

\* _load_config, lines 40-58: the dict it returns and the file it leaves; json.loads
\* (line 58) raises on text that is not a complete JSON document
LoadConfig(file) ==
    [raised |-> file.st = "partial",
     config |-> IF file.st = "absent" THEN DefaultConfig ELSE file,
     file |-> IF file.st = "absent" THEN DefaultConfig ELSE file]

\* variant: the page range runs one page past max_pages
MaxPagesOfOneMore(cfg) ==
    (IF "max_pages" \in cfg.top THEN cfg.max_pages ELSE max_pages_default) + 1

\* parse_all_pages, line 147
MaxPagesOf(cfg) == IF "max_pages" \in cfg.top THEN cfg.max_pages ELSE max_pages_default

\* build_search_url, line 138: self.config['type'] and self.config['city'] exist
CanBuildUrl(cfg) == {"type", "city"} \subseteq cfg.top

\* build_search_url, lines 135-141; page 0 stands for a URL without &page=
BuildSearchUrl(cfg, p) ==
    [type |-> cfg.type, city |-> cfg.city, params |-> cfg.search_params,
     page |-> IF p > 1 THEN p ELSE 0]

\* variant: the URL is built from the file as it is when the page is requested
UrlSourceFile(snapshot, file) == file

\* build_search_url, lines 135-138: the config the URL is built from is self.config
UrlSource(snapshot, file) == snapshot

\* update_config_param, lines 47-56
UpdateConfigParam(file, param, value) ==
    IF param \in DOMAIN file.search_params
    THEN [ok |-> TRUE, file |-> [file EXCEPT !.search_params[param] = value]]
    ELSE [ok |-> FALSE, file |-> file]

\* the senders of messages; ALLOWED_USER_IDS of bot.py line 26
Users == {"admin", "stranger"}
ALLOWED_USER_IDS == {"admin"}

\* /set <param> <value>: the parameter names and value strings the model sends;
\* the empty value string stands for a message without a value, "/set <param>"
CmdParams == {"FRadius", "max_pages", "city"}
ValueStrings == {"", "2", "kaune"}

\* cmd_set, lines 114-115: len(message.text.split(maxsplit=2))
NumParts(param, value_str) == IF value_str = "" THEN 2 ELSE 3

\* cmd_set, line 120: str.isdigit
IsDigit(str) == str \in {"2"}
\* cmd_set, line 124: int(value_str)
ParseInt(str) == CASE str = "2" -> 2

\* no command was handled under observation
NoCmd ==
    [name |-> "", from |-> "", param |-> "", value |-> "", before |-> NoConfig,
     reply |-> ""]

\* admin_only, lines 39-43, and cmd_start, line 91: the answer to /start
StartReply(u, file) ==
    IF u \notin ALLOWED_USER_IDS THEN "denied"
    ELSE IF file.st = "partial" THEN "raised"
    ELSE "menu"

\* cmd_set, lines 115-128: the answer to /set; with no file, read_text raises in
\* update_config_param and no answer is sent
SetReply(file, param, value_str) ==
    IF NumParts(param, value_str) # 3 THEN "usage"
    ELSE IF ~IsDigit(value_str) THEN "not a number"
    ELSE IF file.st # "ok" THEN "raised"
    ELSE IF UpdateConfigParam(file, param, ParseInt(value_str)).ok THEN "set"
    ELSE "not set"

(* ---------- parser.py ---------- *)

\* _parse_apartment, lines 211-255: None (here BAD) for a row without data-id
\* (lines 215-217) and for a row on which building the dict raises (lines 253-255),
\* else the dict of the listing
ParseApartment(r) ==
    IF r = BAD THEN BAD
    ELSE IF r = BROKEN THEN BAD
    ELSE r

\* variant: the rows after a row that gives no dict are lost with it
RECURSIVE ParsePageRowsUntilBad(_)
ParsePageRowsUntilBad(raw) ==
    IF raw = <<>> \/ ParseApartment(Head(raw)) = BAD THEN <<>>
    ELSE <<ParseApartment(Head(raw))>> \o ParsePageRowsUntilBad(Tail(raw))

\* _parse_page, lines 190-202: rows for which _parse_apartment returns None are dropped
ParsePageRows(raw) ==
    SelectSeq([i \in 1..Len(raw) |-> ParseApartment(raw[i])], LAMBDA a : a # BAD)

\* the page as the site rendered it: its listings as _parse_page returns them, the
\* number of its list-row-v2 elements, the number of those with a data-id, the
\* number of those that are complete
Rendered(raw) ==
    [apartments |-> ParsePageRows(raw),
     raw_rows |-> Len(raw),
     raw_ids |-> Cardinality({i \in 1..Len(raw) : raw[i] # BAD}),
     raw_valid |-> Cardinality({i \in 1..Len(raw) : raw[i] \in Ids})]

\* every page the site can render
RenderedPages == {Rendered(raw) : raw \in RawPages}

\* parse_all_pages, lines 160-163: append the listings whose id was not seen yet
RECURSIVE DedupAppend(_, _)
DedupAppend(all, apartments) ==
    IF apartments = <<>> THEN all
    ELSE LET apt == Head(apartments)
         IN DedupAppend(IF apt \notin Range(all) THEN Append(all, apt) ELSE all,
                        Tail(apartments))

(* ---------- parser_playwright.py: parse_all_pages, lines 250-283 ---------- *)

\* lines 251-253: the locals before the page loop; range(1, max_pages + 1) of
\* line 255 is empty when max_pages < 1, and lines 282-283 return the empty list
PwStart(cfg) ==
    LET mp == IF "max_pages" \in cfg.top THEN cfg.max_pages ELSE max_pages_default
    IN [returned |-> mp < 1, max_pages |-> mp, page_num |-> 1, all_apartments |-> <<>>,
        seen_ids |-> {}, fetched |-> <<>>, result |-> NoResult]

\* variant: every listing of the page is appended, seen or not
RECURSIVE PwAppendAll(_, _)
PwAppendAll(s, apartments) ==
    IF apartments = <<>> THEN s
    ELSE PwAppendAll([s EXCEPT !.all_apartments = Append(@, Head(apartments)),
                               !.seen_ids = @ \cup {Head(apartments)}],
                     Tail(apartments))

\* lines 268-271: append the listings whose id is not in seen_ids
RECURSIVE PwDedupAppend(_, _)
PwDedupAppend(s, apartments) ==
    IF apartments = <<>> THEN s
    ELSE LET apt == Head(apartments)
         IN PwDedupAppend(IF apt \notin s.seen_ids
                          THEN [s EXCEPT !.all_apartments = Append(@, apt),
                                         !.seen_ids = @ \cup {apt}]
                          ELSE s,
                          Tail(apartments))

\* one iteration of the loop of lines 255-280 on the outcome of _parse_page:
\* None returns None (259-261), an empty list breaks (263-265) and lines 282-283
\* return what was collected; listings are merged, and the loop goes on to the
\* next page while page_num < max_pages (279-280)
PwPage(s, outcome) ==
    IF s.returned THEN s
    ELSE LET f == [s EXCEPT !.fetched = Append(@, s.page_num)]
         IN IF outcome.none
            THEN [f EXCEPT !.returned = TRUE, !.result = [none |-> TRUE, apts |-> <<>>]]
            ELSE IF outcome.apts = <<>>
            THEN [f EXCEPT !.returned = TRUE,
                           !.result = [none |-> FALSE, apts |-> f.all_apartments]]
            ELSE LET d == PwDedupAppend(f, outcome.apts)
                 IN IF d.page_num < d.max_pages
                    THEN [d EXCEPT !.page_num = @ + 1]
                    ELSE [d EXCEPT !.returned = TRUE,
                                   !.result = [none |-> FALSE,
                                               apts |-> d.all_apartments]]

\* build_search_url raises KeyError at line 244 (called at line 256): nothing is
\* fetched, fetch_new_apartments returns None
PwUrlRaises(s) ==
    IF s.returned THEN s
    ELSE [s EXCEPT !.returned = TRUE, !.result = [none |-> TRUE, apts |-> <<>>]]

\* the dict of a listing: its id and the page whose row it was parsed from; the
\* page stands for the display fields of that row
RowsOfPage(apartments, p) == [i \in 1..Len(apartments) |-> <<apartments[i], p>>]

\* variant: a row whose id was seen replaces the dict kept for that id
RECURSIVE DedupReplaceRows(_, _)
DedupReplaceRows(rows, new) ==
    IF new = <<>> THEN rows
    ELSE LET r == Head(new)
             known == {i \in 1..Len(rows) : rows[i][1] = r[1]}
         IN DedupReplaceRows(IF known = {} THEN Append(rows, r)
                             ELSE [i \in 1..Len(rows) |-> IF i \in known THEN r ELSE rows[i]],
                             Tail(new))

\* parse_all_pages, lines 160-163, on the dicts: the dict of an id seen before is dropped
RECURSIVE DedupAppendRows(_, _)
DedupAppendRows(rows, new) ==
    IF new = <<>> THEN rows
    ELSE LET r == Head(new)
         IN DedupAppendRows(IF r[1] \notin {rows[i][1] : i \in 1..Len(rows)}
                            THEN Append(rows, r) ELSE rows,
                            Tail(new))

\* variant: no page is taken as the end of the results
EmptyPageNever(apartments) == FALSE

\* parse_all_pages, line 157: a page without listings ends the page loop
EmptyPage(apartments) == apartments = <<>>

\* variant: a pacing sleep follows every page with listings
PaceAlways(p, mp) == TRUE

\* parse_all_pages, line 165: a pacing sleep follows the page
PaceAfter(p, mp) == p < mp

\* variant: a failed page returns the listings collected so far
FailureKeepsPartial(all) == [none |-> FALSE, apts |-> all]

\* parse_all_pages, line 155: what a failed page makes of the listings collected so far
FailureResult(all) == [none |-> TRUE, apts |-> <<>>]

(* ---------- bot.py ---------- *)

\* variant: a file that does not parse is read as an empty set
LoadStoreLenient(d) ==
    [raised |-> FALSE,
     ids |-> IF d.st = "ok" THEN d.ids ELSE {}]

\* periodic_parser, lines 184-187: json.loads raises on a file that does not parse
LoadStore(d) ==
    [raised |-> d.st = "corrupt",
     ids |-> IF d.st = "ok" THEN d.ids ELSE {}]

\* variant: no listing is taken as published
AlreadyPublishedNever(id, pub) == FALSE

\* periodic_parser, line 207
AlreadyPublished(id, pub) == id \in pub

\* periodic_parser, lines 214-218: what is added to the set and written to the file
CommitSet(pub, id) == pub \cup {id}

\* variant: the id is marked whether or not the send succeeded
FailedSetMarks(pub, id) == pub \cup {id}

\* periodic_parser, lines 219-220: what a failed send makes of the set
FailedSet(pub, id) == pub

\* send_apt, line 147
MayAttempt(r) == r < max_retries

\* variant: the retry counter is not advanced
RetriesNotCounted(r) == r

\* send_apt, line 159
RetriesAfterFlood(r) == r + 1

\* send_apt, line 161
GiveUp(r) == r >= max_retries

\* variant: the backoff sleeps the fixed inter-message delay
BackoffFixed(hint) == delay

\* send_apt, line 164
BackoffDuration(hint) == hint

\* variant: the listings are walked from the last to the first
CurrentIdReversed == new_apts.apts[Len(new_apts.apts) + 1 - idx]

\* periodic_parser, line 206: the listing the for loop is at
CurrentId == new_apts.apts[idx]

(* ---------- initial state: the process has just started, no file exists ---------- *)

Init ==
    /\ pc = "load"
    /\ cfg_file \in {NoConfig} \cup OperatorConfigs
    /\ disk = NoFile
    /\ published_ids = {}
    /\ new_apts = NoResult
    /\ max_pages = 1
    /\ page = 1
    /\ all_apartments = <<>>
    /\ seen_ids = {}
    /\ idx = 1
    /\ retries = 0
    /\ retry_after = 0
    /\ config = NoConfig
    /\ upd_config = NoConfig
    /\ cmd_pc = "idle"
    /\ open_sessions = 0
    /\ site = 0
    /\ cmdSeen = FALSE
    /\ lastCmd = NoCmd
    /\ waited = 0
    /\ cycleStart = NoFile
    /\ acceptedCycle = {}
    /\ failedCycle = {}
    /\ attemptedCycle = <<>>
    /\ everAccepted = {}
    /\ dupAccepted = FALSE
    /\ owed = {}
    /\ prevCrawl = <<>>
    /\ attempts = 0
    /\ nRateLimited = 0
    /\ nBackoffs = 0
    /\ backoffExact = TRUE
    /\ delayed = 0
    /\ failedPage = 0
    /\ crawlLog = EmptyLog
    /\ cycleKind = "run"

crawlVars == <<max_pages, page, all_apartments, seen_ids, config, open_sessions>>
adminVars == <<cfg_file, upd_config, cmd_pc, cmdSeen, lastCmd>>
sendVars == <<retries, retry_after>>
sendObs == <<attempts, nRateLimited, nBackoffs, backoffExact, delayed>>
histObs == <<everAccepted, dupAccepted, prevCrawl>>
cycleObs == <<cycleStart, acceptedCycle, failedCycle, attemptedCycle, owed, failedPage,
             waited>>
crawlObs == <<cycleObs, everAccepted, dupAccepted, sendObs, cycleKind>>
deliverObs == <<crawlObs, prevCrawl>>

\* the event loop runs one task at a time: periodic_parser and the handlers take
\* the event loop is not inside a handler: a handler runs to its end without an
\* await before its answer, and the scheduler task takes no step meanwhile
LoopFree == cmd_pc = "idle"

\* the crawl returns: the crawl result of the cycle before is kept for
\* comparison only if the new result equals it
CompareCrawl(apts) == prevCrawl' = IF apts = prevCrawl THEN prevCrawl ELSE <<>>

\* parse_all_pages returns or raises: its locals are gone, and the finally clause
\* of fetch_new_apartments (lines 303-305) closes the parser: driver.quit()
CrawlReturns ==
    /\ max_pages' = 1
    /\ page' = 1
    /\ all_apartments' = <<>>
    /\ seen_ids' = {}
    /\ config' = NoConfig
    /\ open_sessions' = open_sessions - 1

\* the observation of one send_apt call starts afresh
ResetSendObs ==
    /\ attempts' = 0
    /\ nRateLimited' = 0
    /\ nBackoffs' = 0
    /\ backoffExact' = TRUE
    /\ delayed' = 0

(* ---------- periodic_parser: start of a cycle, bot.py 182-187 ---------- *)

\* a cycle begins: the observation of the previous cycle is closed
BeginCycleObs ==
    /\ cycleStart' = disk
    /\ acceptedCycle' = {}
    /\ owed' = owed \cup failedCycle
    /\ failedCycle' = {}
    /\ attemptedCycle' = <<>>
    /\ failedPage' = 0
    /\ waited' = 0
    /\ crawlLog' = EmptyLog
    /\ dupAccepted' = FALSE
    /\ ResetSendObs

\* variant: the exception of line 185 is not caught and ends the task
LoadRaisesUncaught ==
    /\ pc = "load"
    /\ LoopFree
    /\ LoadStore(disk).raised
    /\ pc' = "stopped"
    /\ cycleKind' = "corrupt"
    /\ BeginCycleObs
    /\ UNCHANGED <<disk, published_ids, new_apts, crawlVars, idx, sendVars, everAccepted,
                   prevCrawl, adminVars>>
    /\ site' = 228

\* lines 184-187 succeed: the set is loaded, fetch_new_apartments is called
LoadOk ==
    /\ pc = "load"
    /\ LoopFree
    /\ ~LoadStore(disk).raised
    /\ published_ids' = LoadStore(disk).ids
    /\ pc' = "init"
    /\ cycleKind' = "run"
    /\ BeginCycleObs
    /\ UNCHANGED <<disk, new_apts, crawlVars, idx, sendVars, everAccepted, prevCrawl,
                   site, adminVars>>

\* line 185 raises: the handler of line 225 logs, line 228 sleeps
LoadRaises ==
    /\ pc = "load"
    /\ LoopFree
    /\ LoadStore(disk).raised
    /\ pc' = "sleep"
    /\ cycleKind' = "corrupt"
    /\ BeginCycleObs
    /\ UNCHANGED <<disk, published_ids, new_apts, crawlVars, idx, sendVars, everAccepted,
                   prevCrawl, adminVars>>
    /\ site' = 228

(* ---------- fetch_new_apartments, parser.py 280-305 ---------- *)

\* AruodasParser(...) succeeds: the config is read, the driver starts; parse_all_pages 145-147
\* the positions of the worker thread inside the constructor of AruodasParser:
\* before _load_config, after its exists() test found no file (line 41), and inside
\* the write_text of _save_config (lines 61-64) after open(mode="w")
InitPositions == {"init", "cfg_missing", "cfg_save"}

\* _load_config, lines 39-41: exists() finds no file. The event loop runs on while
\* the thread goes on to _save_config
ConfigMissing ==
    /\ pc = "init"
    /\ cfg_file.st = "absent"
    /\ pc' = "cfg_missing"
    /\ UNCHANGED <<disk, published_ids, new_apts, crawlVars, idx, sendVars, obsVars,
                   site, cfg_file, upd_config, cmd_pc>>

\* _save_config, lines 60-64: write_text opens config.json with mode "w", which
\* truncates whatever is there by now, and has not yet written the default
SaveConfigOpens ==
    /\ pc = "cfg_missing"
    /\ pc' = "cfg_save"
    /\ cfg_file' = PartialFile
    /\ UNCHANGED <<disk, published_ids, new_apts, crawlVars, idx, sendVars, obsVars,
                   site, upd_config, cmd_pc>>

\* what _load_config makes of config.json: the file as read_text finds it, or, in
\* the thread that found no file, the default that its write_text completes
ConfigRead == LoadConfig(IF pc = "cfg_save" THEN NoConfig ELSE cfg_file)

\* config.json as _load_config leaves it: as it was, or, from inside _save_config,
\* with the default written to it
ConfigWritten ==
    IF pc = "cfg_save" THEN WriteText(cfg_file, ConfigRead.file) ELSE ConfigRead.file

\* _load_config returns a config: it read an existing file that parses, or it
\* has written the default
ConfigLoads ==
    /\ \/ pc = "init" /\ cfg_file.st # "absent"
       \/ pc = "cfg_save"
    /\ ~ConfigRead.raised

\* the constructor succeeds (lines 35-37), parse_all_pages starts (lines 145-147)
ParserInit ==
    /\ ConfigLoads
    /\ config' = ConfigRead.config
    /\ cfg_file' = ConfigWritten
    /\ max_pages' = MaxPagesOf(config')
    /\ open_sessions' = open_sessions + 1
    /\ page' = 1
    /\ all_apartments' = <<>>
    /\ seen_ids' = {}
    /\ pc' = "page"
    /\ crawlLog' = [EmptyLog EXCEPT !.maxp = max_pages', !.pw = PwStart(config')]
    /\ UNCHANGED <<disk, published_ids, new_apts, idx, sendVars, deliverObs, site, cmdSeen,
                   lastCmd, upd_config, cmd_pc>>

\* _load_config succeeds, webdriver.Chrome raises in _init_driver and no session
\* is started (lines 299-301): fetch_new_apartments returns None
ParserInitRaises ==
    /\ ConfigLoads
    /\ cfg_file' = ConfigWritten
    /\ new_apts' = [none |-> TRUE, apts |-> <<>>]
    /\ pc' = "result"
    /\ CompareCrawl(<<>>)
    /\ UNCHANGED <<disk, published_ids, crawlVars, idx, sendVars, crawlObs, crawlLog,
                   site, cmdSeen, lastCmd, upd_config, cmd_pc>>

\* _load_config succeeds, webdriver.Chrome starts a session (line 125) and
\* driver.execute_script raises (line 127): the constructor raises before
\* self.driver is assigned, parser stays None, the finally clause of lines 303-305
\* closes nothing, fetch_new_apartments returns None
DriverScriptRaises ==
    /\ ConfigLoads
    /\ open_sessions < MaxLeaked
    /\ cfg_file' = ConfigWritten
    /\ open_sessions' = open_sessions + 1
    /\ new_apts' = [none |-> TRUE, apts |-> <<>>]
    /\ pc' = "result"
    /\ CompareCrawl(<<>>)
    /\ UNCHANGED <<disk, published_ids, max_pages, page, all_apartments, seen_ids,
                   config, idx, sendVars, crawlObs, crawlLog, site, cmdSeen, lastCmd,
                   upd_config, cmd_pc>>

\* _load_config raises in the constructor (json.loads, line 58): the handler of
\* lines 299-301 returns None, no parser exists
ConfigUnreadable ==
    /\ pc = "init"
    /\ LoadConfig(cfg_file).raised
    /\ new_apts' = [none |-> TRUE, apts |-> <<>>]
    /\ pc' = "result"
    /\ CompareCrawl(<<>>)
    /\ UNCHANGED <<disk, published_ids, crawlVars, idx, sendVars, crawlObs, crawlLog,
                   site, adminVars>>

\* _parse_page returns None (403, Access Denied, any exception): lines 153-155
PageFails ==
    /\ pc = "page"
    /\ CanBuildUrl(UrlSource(config, cfg_file))
    /\ new_apts' = FailureResult(all_apartments)
    /\ failedPage' = page
    /\ crawlLog' = [fetched |-> Append(crawlLog.fetched, page),
                    urls |-> Append(crawlLog.urls,
                                    BuildSearchUrl(UrlSource(config, cfg_file), page)),
                    before |-> <<>>, last |-> <<>>, rows |-> <<>>, maxp |-> max_pages,
                    paced |-> crawlLog.paced, raw_rows |-> 0, raw_ids |-> 0,
                    raw_valid |-> 0,
                    pw |-> PwPage(crawlLog.pw, [none |-> TRUE, apts |-> <<>>])]
    /\ pc' = "result"
    /\ CrawlReturns
    /\ CompareCrawl(<<>>)
    /\ UNCHANGED <<disk, published_ids, idx, sendVars, cycleStart, acceptedCycle,
                   failedCycle, attemptedCycle, owed, everAccepted, dupAccepted, sendObs,
                   cycleKind, site, waited, adminVars>>

\* build_search_url raises KeyError at line 138 (called at line 150): nothing is
\* fetched, the handler of lines 299-301 returns None
BuildUrlRaises ==
    /\ pc = "page"
    /\ ~CanBuildUrl(UrlSource(config, cfg_file))
    /\ new_apts' = FailureResult(all_apartments)
    /\ crawlLog' = [crawlLog EXCEPT !.before = <<>>, !.last = <<>>, !.rows = <<>>,
                                    !.pw = PwUrlRaises(@)]
    /\ pc' = "result"
    /\ CrawlReturns
    /\ CompareCrawl(<<>>)
    /\ UNCHANGED <<disk, published_ids, idx, sendVars, cycleStart, acceptedCycle,
                   failedCycle, attemptedCycle, owed, failedPage, everAccepted, dupAccepted,
                   sendObs, cycleKind, site, waited, adminVars>>

\* _parse_page returns an empty list: lines 157-158, then 168-169
PageEmpty ==
    /\ pc = "page"
    /\ CanBuildUrl(UrlSource(config, cfg_file))
    /\ \E rendered \in RenderedPages :
        /\ EmptyPage(rendered.apartments)
        /\ crawlLog' = [crawlLog EXCEPT
                !.fetched = Append(@, page),
                !.urls = Append(@, BuildSearchUrl(UrlSource(config, cfg_file), page)),
                !.before = all_apartments,
                !.last = <<>>,
                !.raw_rows = rendered.raw_rows,
                !.raw_ids = rendered.raw_ids,
                !.raw_valid = rendered.raw_valid,
                !.pw = PwPage(@, [none |-> FALSE, apts |-> rendered.apartments])]
    /\ new_apts' = [none |-> FALSE, apts |-> all_apartments]
    /\ pc' = "result"
    /\ CrawlReturns
    /\ CompareCrawl(all_apartments)
    /\ UNCHANGED <<disk, published_ids, idx, sendVars, crawlObs, site, adminVars>>

\* _parse_page returns listings: lines 160-166, and 168-169 after the last page
PageListings ==
    /\ pc = "page"
    /\ CanBuildUrl(UrlSource(config, cfg_file))
    /\ \E rendered \in RenderedPages :
        LET apartments == rendered.apartments
            merged == DedupAppend(all_apartments, apartments)
        IN /\ ~EmptyPage(apartments)
           /\ crawlLog' = [crawlLog EXCEPT
                   !.fetched = Append(@, page),
                   !.urls = Append(@, BuildSearchUrl(UrlSource(config, cfg_file), page)),
                   !.before = all_apartments,
                   !.last = apartments,
                   !.raw_rows = rendered.raw_rows,
                   !.raw_ids = rendered.raw_ids,
                   !.raw_valid = rendered.raw_valid,
                   !.rows = DedupAppendRows(@, RowsOfPage(apartments, page)),
                   !.pw = PwPage(@, [none |-> FALSE, apts |-> apartments])]
           /\ IF PaceAfter(page, max_pages)
              THEN /\ pc' = "pace"
                   /\ all_apartments' = merged
                   /\ seen_ids' = Range(merged)
                   /\ UNCHANGED <<new_apts, max_pages, page, config, open_sessions,
                                  prevCrawl>>
              ELSE /\ pc' = "result"
                   /\ new_apts' = [none |-> FALSE, apts |-> merged]
                   /\ CrawlReturns
                   /\ CompareCrawl(merged)
    /\ UNCHANGED <<disk, published_ids, idx, sendVars, crawlObs, site, adminVars>>

\* time.sleep(2) of line 166, then the next iteration of the page loop
Pace ==
    /\ pc = "pace"
    /\ page' = page + 1
    /\ pc' = "page"
    /\ crawlLog' = [crawlLog EXCEPT !.before = <<>>, !.last = <<>>,
                                    !.paced = @ + PAGE_PAUSE,
                                    !.raw_rows = 0, !.raw_ids = 0, !.raw_valid = 0]
    /\ UNCHANGED <<disk, published_ids, new_apts, max_pages, all_apartments, seen_ids,
                   config, open_sessions, idx, sendVars, deliverObs, site, adminVars>>

(* ---------- periodic_parser: the result of the crawl, bot.py 195-205 ---------- *)

CrawlNone ==
    /\ pc = "result"
    /\ LoopFree
    /\ new_apts.none
    /\ pc' = "sleep"
    /\ cycleKind' = "none"
    /\ crawlLog' = EmptyLog
    /\ UNCHANGED <<disk, published_ids, new_apts, crawlVars, idx, sendVars,
                   cycleObs, histObs, sendObs, adminVars>>
    /\ site' = 197

CrawlEmpty ==
    /\ pc = "result"
    /\ LoopFree
    /\ ~new_apts.none
    /\ new_apts.apts = <<>>
    /\ pc' = "sleep"
    /\ cycleKind' = "empty"
    /\ crawlLog' = EmptyLog
    /\ UNCHANGED <<disk, published_ids, new_apts, crawlVars, idx, sendVars,
                   cycleObs, histObs, sendObs, adminVars>>
    /\ site' = 202

StartDelivery ==
    /\ pc = "result"
    /\ LoopFree
    /\ ~new_apts.none
    /\ new_apts.apts # <<>>
    /\ idx' = 1
    /\ pc' = "loop"
    /\ crawlLog' = EmptyLog
    /\ UNCHANGED <<disk, published_ids, new_apts, crawlVars, sendVars, deliverObs, site,
                   adminVars>>

(* ---------- periodic_parser: for apt in new_apts, bot.py 206-223 ---------- *)

LoopDone ==
    /\ pc = "loop"
    /\ LoopFree
    /\ idx > Len(new_apts.apts)
    /\ pc' = "sleep"
    /\ cycleKind' = "delivered"
    /\ ResetSendObs
    /\ UNCHANGED <<disk, published_ids, new_apts, crawlVars, idx, sendVars,
                   cycleObs, crawlLog, histObs, adminVars>>
    /\ site' = 228

\* lines 207-208
SkipPublished ==
    /\ pc = "loop"
    /\ LoopFree
    /\ idx <= Len(new_apts.apts)
    /\ AlreadyPublished(CurrentId, published_ids)
    /\ idx' = idx + 1
    /\ ResetSendObs
    /\ UNCHANGED <<pc, disk, published_ids, new_apts, crawlVars, sendVars,
                   cycleObs, crawlLog, histObs, cycleKind, site, adminVars>>

\* line 210 calls send_apt: lines 138-146
BeginSend ==
    /\ pc = "loop"
    /\ LoopFree
    /\ idx <= Len(new_apts.apts)
    /\ ~AlreadyPublished(CurrentId, published_ids)
    /\ retries' = 0
    /\ pc' = "send"
    /\ attemptedCycle' = Append(attemptedCycle, CurrentId)
    /\ ResetSendObs
    /\ UNCHANGED <<disk, published_ids, new_apts, crawlVars, idx, retry_after,
                   cycleStart, acceptedCycle, failedCycle, owed, failedPage, crawlLog,
                   histObs, cycleKind, site, waited, adminVars>>

(* ---------- send_apt, bot.py 146-172 ---------- *)

\* variant: a failed send ends the loop over new_apts
ReturnFalseBreaks ==
    /\ failedCycle' = failedCycle \cup {CurrentId}
    /\ published_ids' = FailedSet(published_ids, CurrentId)
    /\ idx' = Len(new_apts.apts) + 1
    /\ retries' = 0
    /\ retry_after' = 0
    /\ pc' = "loop"

\* send_apt returned False: lines 219-220, then the next listing
ReturnFalse ==
    /\ failedCycle' = failedCycle \cup {CurrentId}
    /\ published_ids' = FailedSet(published_ids, CurrentId)
    /\ idx' = idx + 1
    /\ retries' = 0
    /\ retry_after' = 0
    /\ pc' = "loop"

\* bot.send_message returns: the channel accepted the message (lines 149-155)
SendAccepted ==
    /\ pc = "send"
    /\ LoopFree
    /\ MayAttempt(retries)
    /\ attempts' = attempts + 1
    /\ acceptedCycle' = acceptedCycle \cup {CurrentId}
    /\ everAccepted' = everAccepted \cup {CurrentId}
    /\ dupAccepted' = (dupAccepted \/ CurrentId \in everAccepted)
    /\ owed' = owed \ {CurrentId}
    /\ pc' = "delay"
    /\ UNCHANGED <<disk, published_ids, new_apts, crawlVars, idx, sendVars,
                   cycleStart, failedCycle, attemptedCycle, failedPage, crawlLog, nRateLimited,
                   nBackoffs, backoffExact, prevCrawl, cycleKind, site, waited,
                   adminVars, delayed>>

\* TelegramRetryAfter: lines 158-164
SendRateLimited ==
    /\ pc = "send"
    /\ LoopFree
    /\ MayAttempt(retries)
    /\ attempts' = attempts + 1
    /\ nRateLimited' = nRateLimited + 1
    /\ \E hint \in RetryAfterVals :
        IF GiveUp(RetriesAfterFlood(retries))
        THEN ReturnFalse
        ELSE /\ retries' = RetriesAfterFlood(retries)
             /\ retry_after' = hint
             /\ pc' = "backoff"
             /\ UNCHANGED <<idx, failedCycle, published_ids>>
    /\ UNCHANGED <<disk, new_apts, crawlVars,
                   cycleStart, acceptedCycle, attemptedCycle, owed, failedPage, crawlLog,
                   histObs, nBackoffs, backoffExact, cycleKind, site, waited, adminVars,
                   delayed>>

\* TelegramAPIError or any other exception: lines 165-170
SendFails ==
    /\ pc = "send"
    /\ LoopFree
    /\ MayAttempt(retries)
    /\ attempts' = attempts + 1
    /\ ReturnFalse
    /\ UNCHANGED <<disk, new_apts, crawlVars,
                   cycleStart, acceptedCycle, attemptedCycle, owed, failedPage, crawlLog,
                   histObs, nRateLimited, nBackoffs, backoffExact, cycleKind, site,
                   waited, adminVars, delayed>>

\* asyncio.sleep(e.retry_after), line 164, then the while loop of line 147 again
Backoff ==
    /\ pc = "backoff"
    /\ LoopFree
    /\ backoffExact' = (backoffExact /\ BackoffDuration(retry_after) = retry_after)
    /\ nBackoffs' = nBackoffs + 1
    /\ retry_after' = 0
    /\ pc' = "send"
    /\ UNCHANGED <<disk, published_ids, new_apts, crawlVars, idx, retries,
                   cycleObs, crawlLog, histObs, attempts, nRateLimited, cycleKind, site,
                   adminVars, delayed>>

\* variant: the inter-message delay is left out when a backoff sleep occurred
DelayUnlessBackoff(backoffs) == IF backoffs > 0 THEN 0 ELSE delay

\* send_apt, line 156: how long the sleep after an accepted message lasts
DelayDuration(backoffs) == delay

\* asyncio.sleep(delay) and return True, lines 156-157
Delay ==
    /\ pc = "delay"
    /\ LoopFree
    /\ delayed' = delayed + DelayDuration(nBackoffs)
    /\ pc' = "commit"
    /\ UNCHANGED <<disk, published_ids, new_apts, crawlVars, idx, sendVars, cycleObs,
                   histObs, attempts, nRateLimited, nBackoffs, backoffExact, crawlLog,
                   cycleKind, site, adminVars>>

\* periodic_parser, lines 211-218: the id joins the set, the whole set is written
Commit ==
    /\ pc = "commit"
    /\ LoopFree
    /\ published_ids' = CommitSet(published_ids, CurrentId)
    /\ disk' = [st |-> "ok", ids |-> published_ids']
    /\ idx' = idx + 1
    /\ retries' = 0
    /\ pc' = "loop"
    /\ UNCHANGED <<new_apts, crawlVars, retry_after, obsVars, site, adminVars>>

\* write_text of lines 215-218 raises OSError after line 214 added the id: the
\* file is untouched (it could not be opened) or truncated (the data could not
\* be written); the handler of line 225 logs, line 228 sleeps
CommitRaises ==
    /\ pc = "commit"
    /\ LoopFree
    /\ published_ids' = CommitSet(published_ids, CurrentId)
    /\ \E torn \in BOOLEAN :
         disk' = IF torn THEN [st |-> "corrupt", ids |-> {}] ELSE disk
    /\ retries' = 0
    /\ pc' = "sleep"
    /\ cycleKind' = "error"
    /\ ResetSendObs
    /\ UNCHANGED <<new_apts, crawlVars, idx, retry_after, cycleObs, crawlLog, histObs,
                   adminVars>>
    /\ site' = 228

\* variant: the continue statements of lines 198 and 203 are missing, control
\* reaches the sleep of line 228
NextSleepWithoutContinue(line) == IF line \in {197, 202} THEN 228 ELSE 0

\* periodic_parser, lines 198, 203 (continue) and 228 (end of the loop body): the
\* poll sleep that follows the poll sleep of the given line, 0 when the loop
\* starts over
NextSleep(line) == 0

\* periodic_parser, lines 197, 202, 228: how long the sleep of the given line lasts
PollDuration(line) == POLL_INTERVAL

\* asyncio.sleep(POLL_INTERVAL): lines 197, 202, 228; what the ended cycle left in
\* new_apts and idx is not read again before it is overwritten
PollSleep ==
    /\ pc = "sleep"
    /\ LoopFree
    /\ site' = NextSleep(site)
    /\ pc' = IF site' = 0 THEN "load" ELSE "sleep"
    /\ waited' = waited + PollDuration(site)
    /\ new_apts' = NoResult
    /\ idx' = 1
    /\ prevCrawl' = IF cycleKind = "delivered" THEN new_apts.apts ELSE <<>>
    /\ UNCHANGED <<disk, published_ids, crawlVars, sendVars, cycleStart, acceptedCycle,
                   failedCycle, attemptedCycle, owed, failedPage, crawlLog,
                   everAccepted, dupAccepted, sendObs, cycleKind, adminVars>>

(* ---------- the process is killed and started again ---------- *)

\* everything in memory is lost
Forget ==
    /\ published_ids' = {}
    /\ new_apts' = NoResult
    /\ max_pages' = 1
    /\ page' = 1
    /\ all_apartments' = <<>>
    /\ seen_ids' = {}
    /\ config' = NoConfig
    /\ open_sessions' = 0
    /\ upd_config' = NoConfig
    /\ cmd_pc' = "idle"
    /\ idx' = 1
    /\ retries' = 0
    /\ retry_after' = 0
    /\ site' = 0

\* the process dies at any point; a file is as the last completed write left
\* it, and config.json is left truncated by a write_text that had opened it
\* (parser.py 61-64, bot.py 52 and 77) and not yet written
Crash ==
    /\ pc # "down"
    /\ pc' = "down"
    /\ Forget
    /\ ResetSendObs
    /\ prevCrawl' = <<>>
    /\ crawlLog' = EmptyLog
    /\ UNCHANGED <<disk, cycleObs, everAccepted, dupAccepted, cycleKind, cfg_file,
                   cmdSeen, lastCmd>>

\* the process dies inside write_text (lines 215-218): the file was truncated by
\* open(mode="w") and the data was not yet flushed
CrashDuringWrite ==
    /\ pc = "commit"
    /\ pc' = "down"
    /\ disk' = [st |-> "corrupt", ids |-> {}]
    /\ Forget
    /\ ResetSendObs
    /\ prevCrawl' = <<>>
    /\ crawlLog' = EmptyLog
    /\ UNCHANGED <<cycleObs, everAccepted, dupAccepted, cycleKind, cfg_file, cmdSeen,
                   lastCmd>>

\* main() starts periodic_parser again, lines 232-242
Restart ==
    /\ pc = "down"
    /\ pc' = "load"
    /\ UNCHANGED <<disk, published_ids, new_apts, crawlVars, idx, sendVars, obsVars,
                   site, adminVars>>

Next ==
    \/ LoadOk
    \/ LoadRaises
    \/ ConfigMissing
    \/ SaveConfigOpens
    \/ ConfigUnreadable
    \/ ParserInit
    \/ ParserInitRaises
    \/ PageFails
    \/ PageEmpty
    \/ PageListings
    \/ Pace
    \/ CrawlNone
    \/ CrawlEmpty
    \/ StartDelivery
    \/ LoopDone
    \/ SkipPublished
    \/ BeginSend
    \/ SendAccepted
    \/ SendRateLimited
    \/ SendFails
    \/ Backoff
    \/ Delay
    \/ Commit
    \/ PollSleep
    \/ Crash
    \/ CrashDuringWrite
    \/ Restart

Spec == Init /\ [][Next]_vars

(* ---------- the process is never killed; the write of the file may fail ---------- *)

NextLive ==
    \/ LoadOk
    \/ LoadRaises
    \/ ConfigMissing
    \/ SaveConfigOpens
    \/ ParserInit
    \/ ParserInitRaises
    \/ PageFails
    \/ PageEmpty
    \/ PageListings
    \/ Pace
    \/ CrawlNone
    \/ CrawlEmpty
    \/ StartDelivery
    \/ LoopDone
    \/ SkipPublished
    \/ BeginSend
    \/ SendAccepted
    \/ SendRateLimited
    \/ SendFails
    \/ Backoff
    \/ Delay
    \/ Commit
    \/ CommitRaises
    \/ PollSleep

\* the event loop runs the task whenever it can take a step: every await of the
\* loop (to_thread, send_message, sleep) returns or raises
LiveSpec == Init /\ [][NextLive]_vars /\ WF_vars(NextLive)

(* ---------- the admin surface, bot.py 37-128 ---------- *)

\* the positions at which the scheduler task waits (to_thread, send_message, sleep)
\* and the dispatcher runs a handler; at "result" the thread has returned and the
\* task has not yet resumed
AwaitPositions ==
    {"init", "cfg_missing", "cfg_save", "page", "pace", "result", "send", "backoff",
     "delay", "sleep"}

\* a handler touches nothing of the scheduler task and of the crawl
HandlerFrame ==
    UNCHANGED <<pc, disk, published_ids, new_apts, crawlVars, idx, sendVars, site,
                cycleObs, histObs, sendObs, crawlLog, cycleKind>>

\* cmd_start of user u goes on to create config.json: admin_only lets u through
\* (lines 39-43) and exists() finds no file (line 75)
StartCreates(u) == u \in ALLOWED_USER_IDS /\ cfg_file.st = "absent"

\* /start or /settings from user u: admin_only (lines 37-44), then lines 73-75. A
\* stranger is refused. With a file, line 80 reads it and line 91 answers. Without
\* one, the handler is on its way to the write_text of line 77; the crawl runs in
\* a thread of its own (asyncio.to_thread, line 189) and is not held up by it
CmdStartFrom(u) ==
    /\ pc \in AwaitPositions
    /\ LoopFree
    /\ IF StartCreates(u)
       THEN upd_config' = StartConfig /\ cmd_pc' = "start_tested"
       ELSE UNCHANGED <<upd_config, cmd_pc>>
    /\ cmdSeen' = ~cmdSeen
    /\ UNCHANGED cfg_file
    /\ HandlerFrame

CmdStart == \E u \in Users : CmdStartFrom(u) /\ UNCHANGED lastCmd

\* the same step, with the command and its answer recorded; no answer yet when the
\* handler goes on to write
CmdStartObserved ==
    \E u \in Users :
        /\ CmdStartFrom(u)
        /\ lastCmd' = [name |-> "start", from |-> u, param |-> "", value |-> "",
                       before |-> cfg_file,
                       reply |-> IF StartCreates(u) THEN ""
                                 ELSE StartReply(u, cfg_file)]

\* line 77: write_text opens config.json with mode "w", which creates it or
\* truncates what the crawl has written by now, and has not yet written
StartOpensFile ==
    /\ cmd_pc = "start_tested"
    /\ cmd_pc' = "start_open"
    /\ cfg_file' = PartialFile
    /\ cmdSeen' = ~cmdSeen
    /\ UNCHANGED <<upd_config, lastCmd>>
    /\ HandlerFrame

\* the write_text of line 77 writes its text and closes the file
StartWritesFile ==
    /\ cmd_pc = "start_open"
    /\ cmd_pc' = "start_written"
    /\ cfg_file' = WriteText(cfg_file, upd_config)
    /\ upd_config' = NoConfig
    /\ cmdSeen' = ~cmdSeen
    /\ UNCHANGED lastCmd
    /\ HandlerFrame

\* lines 80-91: the handler reads the file it has created and answers with the
\* menu, or json.loads raises on what the file holds by now
StartReads ==
    /\ cmd_pc = "start_written"
    /\ cmd_pc' = "idle"
    /\ cmdSeen' = ~cmdSeen
    /\ UNCHANGED <<cfg_file, upd_config>>
    /\ HandlerFrame

StartAnswers == StartReads /\ UNCHANGED lastCmd

\* the same step, with the answer recorded
StartAnswersObserved ==
    /\ StartReads
    /\ lastCmd' = [lastCmd EXCEPT !.reply = StartReply(lastCmd.from, cfg_file)]

\* cmd_set goes on to write: the message has a parameter and a value of digits
\* (lines 115, 120), read_text finds a file that parses (line 49) and the parameter
\* is a key of its search_params (line 50)
SetWrites(param, value_str) ==
    /\ NumParts(param, value_str) = 3
    /\ IsDigit(value_str)
    /\ cfg_file.st = "ok"
    /\ UpdateConfigParam(cfg_file, param, ParseInt(value_str)).ok

\* "/set param value_str" from user u, lines 113-128 and 47-51: no check of the
\* sender; a value that is not all digits is refused; with no file, read_text
\* raises in update_config_param; a parameter that is no key of search_params is
\* refused. Else the dict is read and changed, and the handler is on its way to
\* the write_text of line 52
CmdSetWith(u, param, value_str) ==
    /\ pc \in AwaitPositions
    /\ LoopFree
    /\ IF SetWrites(param, value_str)
       THEN /\ upd_config' = UpdateConfigParam(cfg_file, param, ParseInt(value_str)).file
            /\ cmd_pc' = "set_read"
       ELSE UNCHANGED <<upd_config, cmd_pc>>
    /\ cmdSeen' = ~cmdSeen
    /\ UNCHANGED cfg_file
    /\ HandlerFrame

CmdSet == \E u \in Users, param \in CmdParams, value_str \in ValueStrings :
              CmdSetWith(u, param, value_str) /\ UNCHANGED lastCmd

\* the same step, with the command and its answer recorded; no answer yet when the
\* handler goes on to write
CmdSetObserved ==
    \E u \in Users, param \in CmdParams, value_str \in ValueStrings :
        /\ CmdSetWith(u, param, value_str)
        /\ lastCmd' = [name |-> "set", from |-> u, param |-> param, value |-> value_str,
                       before |-> cfg_file,
                       reply |-> IF SetWrites(param, value_str) THEN ""
                                 ELSE SetReply(cfg_file, param, value_str)]

\* line 52: write_text opens config.json with mode "w", which truncates it, and
\* has not yet written
SetOpensFile ==
    /\ cmd_pc = "set_read"
    /\ cmd_pc' = "set_open"
    /\ cfg_file' = PartialFile
    /\ cmdSeen' = ~cmdSeen
    /\ UNCHANGED <<upd_config, lastCmd>>
    /\ HandlerFrame

\* the write_text of line 52 writes its text and closes the file;
\* update_config_param returns True and line 126 answers
SetWritesText ==
    /\ cmd_pc = "set_open"
    /\ cmd_pc' = "idle"
    /\ cfg_file' = WriteText(cfg_file, upd_config)
    /\ upd_config' = NoConfig
    /\ cmdSeen' = ~cmdSeen
    /\ HandlerFrame

SetWritesFile == SetWritesText /\ UNCHANGED lastCmd

\* the same step, with the answer recorded
SetWritesObserved == SetWritesText /\ lastCmd' = [lastCmd EXCEPT !.reply = "set"]

\* the scheduler with a channel that accepts every message, and the admin surface
NextAdmin ==
    \/ LoadOk
    \/ ConfigMissing
    \/ SaveConfigOpens
    \/ ConfigUnreadable
    \/ ParserInit
    \/ ParserInitRaises
    \/ BuildUrlRaises
    \/ PageFails
    \/ PageEmpty
    \/ PageListings
    \/ Pace
    \/ CrawlNone
    \/ CrawlEmpty
    \/ StartDelivery
    \/ LoopDone
    \/ SkipPublished
    \/ BeginSend
    \/ SendAccepted
    \/ Delay
    \/ Commit
    \/ PollSleep
    \/ CmdStart
    \/ StartOpensFile
    \/ StartWritesFile
    \/ StartAnswers
    \/ CmdSet
    \/ SetOpensFile
    \/ SetWritesFile

AdminSpec == Init /\ [][NextAdmin]_vars

(* ---------- the browser sessions of the crawls ---------- *)

\* the scheduler with a channel that accepts every message, and a driver whose
\* start can fail before or after Chrome is running
NextBrowser ==
    \/ LoadOk
    \/ ConfigMissing
    \/ SaveConfigOpens
    \/ ParserInit
    \/ ParserInitRaises
    \/ DriverScriptRaises
    \/ PageFails
    \/ PageEmpty
    \/ PageListings
    \/ Pace
    \/ CrawlNone
    \/ CrawlEmpty
    \/ StartDelivery
    \/ LoopDone
    \/ SkipPublished
    \/ BeginSend
    \/ SendAccepted
    \/ Delay
    \/ Commit
    \/ PollSleep

BrowserSpec == Init /\ [][NextBrowser]_vars

\* the admin surface under observation, beside a scheduler whose driver does not start
NextCmd ==
    \/ LoadOk
    \/ ConfigMissing
    \/ SaveConfigOpens
    \/ ConfigUnreadable
    \/ ParserInitRaises
    \/ CrawlNone
    \/ PollSleep
    \/ CmdStartObserved
    \/ StartOpensFile
    \/ StartWritesFile
    \/ StartAnswersObserved
    \/ CmdSetObserved
    \/ SetOpensFile
    \/ SetWritesObserved

CmdSpec == Init /\ [][NextCmd]_vars

(* ====================== properties ====================== *)

\* the listing whose send_apt call returned last
PrevId == new_apts.apts[idx - 1]

\* C1: no listing id is accepted by the channel more than once, whatever the
\* interleaving of cycles, crashes and restarts.
C1_AcceptedAtMostOnce == ~dupAccepted

\* C2: when the process is down after being interrupted during delivery, the file
\* holds exactly the ids it held at cycle start plus the ids the channel accepted
\* in the interrupted cycle.
C2_StoreMatchesAccepted ==
    (pc = "down" /\ attemptedCycle # <<>>)
        => (disk.st # "corrupt" /\ disk.ids = cycleStart.ids \cup acceptedCycle)

\* C3: every id on disk that the cycle did not find there when it loaded the file
\* was accepted by the channel in this cycle, and no id whose send_apt call
\* returned False in this cycle is on disk.
C3_OnlyAcceptedWritten ==
    disk.st = "ok" =>
        /\ (disk.ids \ cycleStart.ids) \subseteq acceptedCycle
        /\ disk.ids \cap failedCycle = {}

C3_Witness ==
    /\ pc = "loop"
    /\ disk.st = "ok"
    /\ failedCycle # {}
    /\ (disk.ids \ cycleStart.ids) # {}

\* C4: no id is ever removed: a step either leaves the file alone, or is the
\* write of a commit, and then the file holds a set that includes every id it
\* held before.
C4_NoIdRemoved ==
    [][ \/ disk' = disk
        \/ (pc = "commit" /\ disk'.st = "ok" /\ disk.ids \subseteq disk'.ids) ]_vars

\* C5: a crash during a commit leaves the complete previous set or the complete
\* new set in the file, never an empty, partial or unparseable file.
C5_CommitAtomic == pc = "down" => disk.st # "corrupt"

\* C6: a cycle that finds a file that does not parse makes no crawl, sends
\* nothing, commits nothing and leaves the file as it is; only an absent file is
\* read as the empty set.
C6_CorruptAbortsCycle ==
    /\ cycleStart.st = "corrupt" =>
        /\ pc \in {"sleep", "load", "down"}
        /\ acceptedCycle = {}
        /\ attemptedCycle = <<>>
        /\ disk = cycleStart
    /\ pc \in InitPositions =>
        /\ cycleStart.st \in {"absent", "ok"}
        /\ published_ids = cycleStart.ids
        /\ (published_ids = {} <=> cycleStart.st = "absent")

C6_Witness ==
    /\ pc = "sleep"
    /\ cycleKind = "corrupt"
    /\ everAccepted # {}

\* C7: when a page of the crawl fails, whichever page it is, the crawl returns
\* None without listings, and the cycle sends nothing and commits nothing.
C7_PageFailureDiscardsCrawl ==
    failedPage > 0 =>
        /\ pc \in {"result", "sleep", "load", "down"}
        /\ (pc = "result" => (new_apts.none /\ new_apts.apts = <<>>))
        /\ (pc = "sleep" => cycleKind = "none")
        /\ acceptedCycle = {}
        /\ attemptedCycle = <<>>
        /\ disk = cycleStart

C7_Witness ==
    /\ pc = "sleep"
    /\ failedPage = 2
    /\ cycleKind = "none"

\* C8: an id whose send failed is not on disk; when the loop over new_apts has
\* ended, every listing of the crawl that was not already published was handed
\* to send_apt, the ones after a failed listing and the ones that failed in an
\* earlier cycle included.
C8_FailedNotMarkedAndRetried ==
    /\ disk.ids \cap failedCycle = {}
    /\ owed \cap disk.ids = {}
    /\ (pc = "sleep" /\ cycleKind = "delivered") =>
        /\ \A i \in 1..Len(new_apts.apts) :
              new_apts.apts[i] \in cycleStart.ids \/ new_apts.apts[i] \in Range(attemptedCycle)
        /\ (owed \cap Range(new_apts.apts)) \subseteq Range(attemptedCycle)

C8_Witness ==
    /\ pc = "sleep"
    /\ cycleKind = "delivered"
    /\ Len(attemptedCycle) = 2
    /\ attemptedCycle[1] \in owed
    /\ attemptedCycle[1] \in failedCycle
    /\ attemptedCycle[2] \in acceptedCycle

\* C9: after k RateLimited answers (k <= 4) the send is attempted again, k
\* backoff sleeps have been made, each as long as the channel's hint; when the
\* channel then accepts, the id is committed.
C9_BackoffThenCommit ==
    /\ pc = "send" =>
        /\ MayAttempt(retries)
        /\ nRateLimited = retries
        /\ attempts = nRateLimited
        /\ nBackoffs = nRateLimited
    /\ pc = "backoff" =>
        /\ nBackoffs = nRateLimited - 1
        /\ retry_after \in RetryAfterVals
    /\ pc \in {"delay", "commit"} =>
        /\ nRateLimited <= max_retries - 1
        /\ nBackoffs = nRateLimited
        /\ attempts = nRateLimited + 1
        /\ CurrentId \in acceptedCycle
    /\ backoffExact
    /\ pc \in {"loop", "send", "backoff", "sleep"} =>
        (acceptedCycle # {} => (disk.st = "ok" /\ acceptedCycle \subseteq disk.ids))

C9_Witness ==
    /\ pc = "loop"
    /\ idx > 1
    /\ nRateLimited = max_retries - 1
    /\ nBackoffs = max_retries - 1
    /\ PrevId \in acceptedCycle
    /\ PrevId \in disk.ids

\* C10: a listing is sent at most max_retries times in a cycle; when the last
\* of these is answered RateLimited, send_apt returns False, the loop moves on
\* and the id is not on disk.
C10_AtMostFiveAttempts ==
    /\ attempts <= max_retries
    /\ \A i, j \in 1..Len(attemptedCycle) : attemptedCycle[i] = attemptedCycle[j] => i = j
    /\ nRateLimited = max_retries =>
        /\ pc = "loop"
        /\ idx > 1
        /\ attempts = max_retries
        /\ PrevId \in failedCycle
        /\ PrevId \notin disk.ids
        /\ PrevId \notin published_ids

C10_Witness ==
    /\ pc = "loop"
    /\ nRateLimited = max_retries
    /\ attempts = max_retries
    /\ idx <= Len(new_apts.apts)

\* the crawl of the current cycle returned what the crawl of the cycle before
\* returned, and the delivery loop is running or has ended
SameCrawlAgain ==
    /\ prevCrawl # <<>>
    /\ new_apts.apts = prevCrawl
    /\ pc \in {"loop", "send", "backoff", "delay", "commit", "sleep"}

\* C11 as stated: a cycle whose crawl result equals that of the cycle before has
\* no message accepted by the channel.
C11_SecondRunDeliversNothing == SameCrawlAgain => acceptedCycle = {}

\* C11: in a cycle whose crawl result equals that of the cycle before, a listing
\* is handed to send_apt only if its send failed before and the channel has not
\* accepted it since (once accepted, it is in the cycle's accepted set); a listing
\* found on disk at the start of the cycle is not sent.
C11_SecondRunSendsOnlyFailed ==
    SameCrawlAgain =>
        \A i \in 1..Len(attemptedCycle) :
            /\ attemptedCycle[i] \notin cycleStart.ids
            /\ attemptedCycle[i] \in owed \/ attemptedCycle[i] \in acceptedCycle

C11_Witness ==
    /\ SameCrawlAgain
    /\ pc = "sleep"
    /\ cycleKind = "delivered"
    /\ Len(prevCrawl) = 2
    /\ attemptedCycle = <<>>
    /\ disk.ids = Range(prevCrawl)

\* what parse_all_pages holds after a page with listings, or has returned
CrawlList == IF pc = "pace" THEN all_apartments ELSE new_apts.apts

\* a page with listings was merged last and the crawl did not fail
PageMerged ==
    /\ pc \in {"pace", "result"}
    /\ crawlLog.last # <<>>
    /\ failedPage = 0

NoRepeat(s) == \A i, j \in 1..Len(s) : s[i] = s[j] => i = j

\* position of the first occurrence of x in s
FirstIndex(s, x) == CHOOSE k \in 1..Len(s) : s[k] = x /\ \A m \in 1..(k - 1) : s[m] # x

\* C12: the crawl list holds each id once; a page leaves the listings collected
\* before it in place, with the dicts they had, and appends the ids it shows for
\* the first time in the order of their first row; in a cycle no id is handed
\* to send_apt twice and the channel accepts at most one message for it.
C12_DedupKeepsFirst ==
    /\ NoRepeat(all_apartments)
    /\ NoRepeat(new_apts.apts)
    /\ PageMerged =>
          LET before == crawlLog.before
              n == Len(before)
              added == SubSeq(CrawlList, n + 1, Len(CrawlList))
          IN /\ Len(CrawlList) >= n
             /\ SubSeq(CrawlList, 1, n) = before
             /\ Range(added) = Range(crawlLog.last) \ Range(before)
             /\ \A i, j \in 1..Len(added) :
                   i < j => FirstIndex(crawlLog.last, added[i]) < FirstIndex(crawlLog.last, added[j])
             /\ Len(crawlLog.rows) = Len(CrawlList)
             /\ \A i \in 1..Len(CrawlList) :
                   /\ crawlLog.rows[i][1] = CrawlList[i]
                   /\ i <= n => crawlLog.rows[i][2] < Len(crawlLog.fetched)
                   /\ i > n => crawlLog.rows[i][2] = Len(crawlLog.fetched)
    /\ NoRepeat(attemptedCycle)
    /\ pc \in {"loop", "send", "backoff", "delay", "commit", "sleep"} =>
          Range(attemptedCycle) \subseteq Range(new_apts.apts)
    /\ pc = "delay" => attempts = nRateLimited + 1

\* page 2 showed a listing that page 1 had shown, and a new one after it
C12_Witness ==
    /\ PageMerged
    /\ pc = "result"
    /\ crawlLog.fetched = <<1, 2>>
    /\ Len(crawlLog.before) = 1
    /\ Len(crawlLog.last) = 2
    /\ crawlLog.last[1] = crawlLog.before[1]
    /\ Len(new_apts.apts) = 2
    /\ crawlLog.rows[1][2] = 1

\* C13: the pages requested by a crawl are 1, 2, ... in this order, at most
\* max_pages of them; a page without listings is followed by no pacing sleep and
\* no further page: the crawl returns the listings collected from the pages
\* before it; a crawl whose last page had listings has requested max_pages pages.
C13_PagesInOrderStopAtEmpty ==
    /\ \A i \in 1..Len(crawlLog.fetched) : crawlLog.fetched[i] = i
    /\ Len(crawlLog.fetched) <= crawlLog.maxp
    /\ pc = "page" => (page = Len(crawlLog.fetched) + 1 /\ page <= max_pages)
    /\ pc = "pace" => (page = Len(crawlLog.fetched) /\ page < max_pages)
    /\ pc \in {"page", "pace"} => max_pages = crawlLog.maxp
    /\ pc = "pace" => crawlLog.last # <<>>
    /\ (pc = "result" /\ crawlLog.fetched # <<>> /\ crawlLog.last = <<>> /\ failedPage = 0) =>
          /\ new_apts = [none |-> FALSE, apts |-> crawlLog.before]
          /\ Len(crawlLog.rows) = Len(crawlLog.before)
          /\ \A i \in 1..Len(crawlLog.rows) :
                /\ crawlLog.rows[i][1] = crawlLog.before[i]
                /\ crawlLog.rows[i][2] < Len(crawlLog.fetched)
    /\ (pc = "result" /\ crawlLog.last # <<>>) => Len(crawlLog.fetched) = crawlLog.maxp

\* page 1 had listings, page 2 had none, max_pages allowed a third page
C13_Witness ==
    /\ pc = "result"
    /\ failedPage = 0
    /\ crawlLog.fetched = <<1, 2>>
    /\ crawlLog.last = <<>>
    /\ crawlLog.maxp = 3
    /\ Len(new_apts.apts) = 2

\* the listings among the first n of the crawl result that the file did not hold
\* when the cycle loaded it
NotYetPublished(n) ==
    SelectSeq(SubSeq(new_apts.apts, 1, n), LAMBDA id : id \notin cycleStart.ids)

\* the sends of the cycle that have ended: failed, or accepted and committed
Settled == failedCycle \cup (acceptedCycle \cap disk.ids)

\* C14: the listings handed to send_apt in a cycle are the listings of the crawl
\* result that were not in the loaded set, in crawl order, up to the position of
\* the loop; while one listing is being sent, every listing handed over before
\* it has failed or has been accepted and committed, and it has not itself ended.
C14_AttemptsInCrawlOrder ==
    /\ pc = "loop" =>
          /\ attemptedCycle = NotYetPublished(idx - 1)
          /\ Range(attemptedCycle) \subseteq Settled
    /\ pc \in {"send", "backoff", "delay", "commit"} =>
          /\ idx <= Len(new_apts.apts)
          /\ attemptedCycle = NotYetPublished(idx)
          /\ attemptedCycle[Len(attemptedCycle)] = CurrentId
          /\ \A i \in 1..(Len(attemptedCycle) - 1) : attemptedCycle[i] \in Settled
          /\ CurrentId \notin Settled
    /\ (pc = "sleep" /\ cycleKind = "delivered") =>
          /\ attemptedCycle = NotYetPublished(Len(new_apts.apts))
          /\ Range(attemptedCycle) \subseteq Settled

\* the second listing is being sent after the first one failed
C14_Witness ==
    /\ pc = "send"
    /\ idx = 2
    /\ Len(attemptedCycle) = 2
    /\ attemptedCycle[1] \in failedCycle
    /\ cycleStart.ids = {}

\* the positions of the while loop of periodic_parser and of what it calls
LoopPositions ==
    {"load", "init", "cfg_missing", "cfg_save", "page", "pace", "result", "loop",
     "send", "backoff", "delay", "commit", "sleep"}

\* a failure has happened in the current cycle: the load raised, the crawl
\* returned None, a send failed (the cycle goes on with the next listing and
\* ends in the sleep of line 228), or the write of the file raised
FailureInCycle ==
    \/ pc = "sleep" /\ cycleKind \in {"corrupt", "none", "error"}
    \/ pc = "result" /\ new_apts.none
    \/ pc \in {"loop", "send", "backoff", "delay", "commit", "sleep"} /\ failedCycle # {}

\* steps that one listing can take at most: the call, max_retries sends with
\* their backoffs, the delay, the commit
StepsPerListing == 2 * max_retries + 4

\* how far the cycle is from its end: the phase it is in, and the steps it can
\* still take inside that phase
Phase ==
    CASE pc \in InitPositions -> 5
      [] pc \in {"page", "pace"} -> 4
      [] pc = "result" -> 3
      [] pc \in {"loop", "send", "backoff", "delay", "commit"} -> 2
      [] pc = "sleep" -> 1
      [] OTHER -> 0

StepsLeft ==
    LET after == (Len(new_apts.apts) - idx) * StepsPerListing
    IN CASE pc = "init" -> 2
         [] pc = "cfg_missing" -> 1
         [] pc = "page" -> 2 * (max_pages - page) + 1
         [] pc = "pace" -> 2 * (max_pages - page)
         [] pc = "loop" -> (Len(new_apts.apts) - idx + 1) * StepsPerListing
         [] pc = "send" -> after + 2 * (max_retries - retries) + 3
         [] pc = "backoff" -> after + 2 * (max_retries - retries) + 4
         [] pc = "delay" -> after + 2
         [] pc = "commit" -> after + 1
         [] OTHER -> 0

\* C15: while the process lives, the task never leaves the loop and can always
\* take a step; after a load that raises, a crawl that returns None, a failed
\* send or a write that raises, the scheduler eventually stands at the start of
\* the next cycle, having slept the poll interval once; every step of a cycle
\* leaves it nearer to its end, and the next cycle starts out of the poll sleep
\* only.
C15_FailureNeverEndsLoop ==
    /\ [](pc \in LoopPositions)
    /\ [](ENABLED <<NextLive>>_vars)
    /\ FailureInCycle ~> (pc = "load" /\ waited = POLL_INTERVAL)
    /\ [](StepsLeft >= 0)
    /\ [][ \/ pc = "load"
           \/ Phase' < Phase
           \/ (Phase' = Phase /\ StepsLeft' < StepsLeft) ]_vars
    /\ [][pc' = "load" => pc = "sleep"]_vars

\* the cycle after a write that raised is about to start
C15_Witness ==
    /\ pc = "load"
    /\ cycleKind = "error"
    /\ acceptedCycle # {}
    /\ disk.st = "corrupt"
    /\ waited = POLL_INTERVAL

\* C16: no poll sleep is made while the cycle works; a cycle ends in the poll
\* sleep of the line its path leads to (197 after a crawl that returned None, 202
\* after an empty crawl, 228 after the delivery loop and after an exception
\* caught by the handler of line 225); that sleep lasts POLL_INTERVAL, is the
\* only one, and the next cycle starts out of it.
C16_OnePollSleepPerCycle ==
    /\ [](pc \in InitPositions \cup {"page", "pace", "result", "loop", "send", "backoff",
                                      "delay", "commit"}
            => (waited = 0 /\ site = 0))
    /\ [](pc = "sleep" =>
            /\ waited = 0
            /\ cycleKind = "none" => site = 197
            /\ cycleKind = "empty" => site = 202
            /\ cycleKind \in {"delivered", "corrupt", "error"} => site = 228
            /\ cycleKind # "run")
    /\ [][pc = "sleep" => (pc' = "load" /\ waited' = POLL_INTERVAL)]_vars
    /\ [][pc' = "load" => pc = "sleep"]_vars

\* the next cycle is about to start after a cycle that delivered and slept once
C16_Witness ==
    /\ pc = "load"
    /\ cycleKind = "delivered"
    /\ acceptedCycle # {}
    /\ waited = POLL_INTERVAL


(* ---------- C17 ---------- *)

\* a parse_all_pages call is running: between the constructor and the return
CrawlInFlight == pc \in {"page", "pace"}

\* C17: the configuration is read once, when the crawl starts. While the crawl runs,
\* its config and max_pages stay what the constructor loaded, whatever the admin
\* surface writes to the file meanwhile; every URL the crawl requests is built from
\* that config; the constructor of the next crawl, when it finds a file, loads the
\* file as it then is.
C17_ConfigReadOncePerCrawl ==
    /\ [](CrawlInFlight =>
            /\ config.st = "ok"
            /\ max_pages = MaxPagesOf(config)
            /\ crawlLog.maxp = max_pages
            /\ \A i \in 1..Len(crawlLog.urls) :
                  crawlLog.urls[i] = BuildSearchUrl(config, crawlLog.fetched[i]))
    /\ [][CrawlInFlight /\ crawlLog'.urls # crawlLog.urls
            => crawlLog'.urls = Append(crawlLog.urls, BuildSearchUrl(config, page))]_vars
    /\ [][CrawlInFlight /\ CrawlInFlight' => config' = config /\ max_pages' = max_pages]_vars
    /\ [][(pc \in InitPositions) /\ pc' = "page"
            => /\ config' = cfg_file'
               /\ pc = "init" => config' = cfg_file
               /\ max_pages' = MaxPagesOf(cfg_file')]_vars

\* the file was edited while the crawl was in flight, and the second page was
\* requested with the parameters the crawl started with
C17_Witness ==
    /\ pc = "pace"
    /\ cfg_file.st = "ok"
    /\ cfg_file.search_params # config.search_params
    /\ Len(crawlLog.urls) = 2
    /\ crawlLog.urls[2].params = config.search_params
    /\ crawlLog.urls[2].page = 2


(* ---------- C18 ---------- *)

\* a step of the crawl/delivery cycle: not the handling of an admin command
CycleStep == cmdSeen' = cmdSeen

\* C18 as stated: no step of a cycle changes config.json, and published_ids.json
\* changes only at the write of the delivery loop
C18_NoCycleWritesConfig ==
    /\ [][CycleStep => cfg_file' = cfg_file]_vars
    /\ [][disk' # disk => CycleStep /\ pc = "commit"]_vars

\* C18: a cycle writes config.json only in the constructor of the parser, and
\* only after _load_config found no file: it opens the file for writing and writes
\* the defaults, over whatever an admin command created since. A file that is
\* there when _load_config looks for it is never changed by a cycle.
\* published_ids.json changes only at the write of the delivery loop, never at an
\* admin command.
C18_CycleOnlyCreatesConfig ==
    /\ [][CycleStep /\ cfg_file' # cfg_file
            => \/ pc = "cfg_missing" /\ cfg_file' = PartialFile
               \/ pc = "cfg_save" /\ cfg_file' = DefaultConfig]_vars
    /\ [][pc # "cfg_missing" /\ pc' = "cfg_missing"
            => pc = "init" /\ cfg_file.st = "absent" /\ cfg_file' = cfg_file]_vars
    /\ [][pc = "cfg_missing" /\ pc' # "cfg_missing" => pc' = "cfg_save"]_vars
    /\ [][disk' # disk => CycleStep /\ pc = "commit"]_vars

\* the constructor created config.json and the delivery loop wrote published_ids.json
C18_Witness ==
    /\ pc = "sleep"
    /\ cycleKind = "delivered"
    /\ cfg_file = DefaultConfig
    /\ disk.st = "ok"
    /\ disk.ids # {}


(* ---------- C19 ---------- *)

\* the keys of the complete config.json: _load_config, lines 44-55
SearchParamKeys == {"FRadius", "FAreaOverAllMin", "FPriceMax", "detailed_search", "pet_friendly"}
TopLevelKeys == {"city", "type", "max_pages"}
HasEveryField(file) ==
    /\ SearchParamKeys \subseteq DOMAIN file.search_params
    /\ TopLevelKeys \subseteq file.top

\* C19: a config.json that exists has every field, whoever created it, and a crawl
\* that has loaded it can build its page URLs
C19_FirstAccessCreatesEveryField ==
    /\ cfg_file.st = "ok" => HasEveryField(cfg_file)
    /\ CrawlInFlight => HasEveryField(config) /\ CanBuildUrl(config)


(* ---------- C20 ---------- *)

\* a step of the handler of /set at which the handler ends: it answers, or
\* read_text has raised
SetAnswered == ~CycleStep /\ lastCmd'.name = "set" /\ lastCmd'.reply # ""

\* C20: with a complete config.json, a /set command of the admin for a key leaves
\* the file with the value sent for that key: a search parameter, max_pages, city
C20_EachKeyUpdatable ==
    [][(SetAnswered /\ lastCmd'.from = "admin" /\ HasEveryField(lastCmd'.before)) =>
         LET p == lastCmd'.param
             v == lastCmd'.value
         IN /\ (p = "FRadius" /\ v = "2") => cfg_file'.search_params["FRadius"] = 2
            /\ (p = "max_pages" /\ v = "2") => cfg_file'.max_pages = 2
            /\ (p = "city" /\ v = "kaune") => cfg_file'.city = "kaune"]_vars


(* ---------- C21 ---------- *)

\* the ids the channel accepted in this cycle that published_ids.json does not hold
AcceptedNotWritten == acceptedCycle \ (IF disk.st = "ok" THEN disk.ids ELSE {})

\* the positions at which the scheduler task is inside asyncio.sleep (lines 156, 164,
\* 197, 202, 228) or inside bot.send_message (line 149)
SleepOrSendPositions == {"delay", "backoff", "sleep", "send"}

\* C21: the id of an accepted listing is written at once: the process is never
\* inside a sleep or inside a channel call while an id the channel accepted in this
\* cycle is missing from the file
C21_PersistedImmediately == pc \in SleepOrSendPositions => AcceptedNotWritten = {}


(* ---------- C22 ---------- *)

\* C22: no inter-message delay is slept before the channel accepts the listing;
\* when the accepted listing is committed, and when the first attempt of the next
\* listing is made, exactly one delay of `delay` seconds has been slept for it,
\* however many backoff sleeps preceded the acceptance
C22_OneDelayAfterSuccess ==
    /\ [](pc \in {"send", "backoff", "delay"} => delayed = 0)
    /\ [](pc = "commit" => delayed = delay)
    /\ [][(pc = "loop" /\ pc' = "send" /\ idx > 1 /\ attempts > 0
             /\ PrevId \in acceptedCycle)
            => delayed = delay]_vars

\* listing 1 was accepted after a backoff sleep and committed; the first attempt
\* of listing 2 is about to be made
C22_Witness ==
    /\ pc = "loop"
    /\ idx = 2
    /\ Len(new_apts.apts) = 2
    /\ PrevId \in acceptedCycle
    /\ ~AlreadyPublished(CurrentId, published_ids)
    /\ nBackoffs > 0
    /\ delayed = delay


(* ---------- C23 ---------- *)

\* C23: a pacing sleep of PAGE_PAUSE seconds lies between every two consecutive
\* page requests of a crawl, and none follows the last page requested: a pacing
\* sleep runs only after a page with listings that is not page max_pages, and
\* the next request follows it; when the crawl has returned after n requests, at
\* max_pages, at an empty page or at a failed page, it has slept n - 1 times
C23_PacingBetweenPagesOnly ==
    /\ [](pc = "pace" =>
            /\ page < crawlLog.maxp
            /\ crawlLog.last # <<>>
            /\ crawlLog.paced = PAGE_PAUSE * (Len(crawlLog.fetched) - 1))
    /\ [](pc = "page" => crawlLog.paced = PAGE_PAUSE * Len(crawlLog.fetched))
    /\ []((pc = "result" /\ crawlLog.fetched # <<>>)
            => crawlLog.paced = PAGE_PAUSE * (Len(crawlLog.fetched) - 1))
    /\ [][pc = "pace" /\ pc' # "pace" => pc' \in {"page", "down"}]_vars

\* pages 1 and 2 had listings, page 3 failed: two pacing sleeps, none after page 3
C23_Witness ==
    /\ pc = "result"
    /\ new_apts.none
    /\ crawlLog.fetched = <<1, 2, 3>>
    /\ crawlLog.paced = 2 * PAGE_PAUSE


(* ---------- C24 ---------- *)

\* C24: a command whose sender is not in ALLOWED_USER_IDS leaves config.json as it was
C24_OnlyAdminsChangeConfig ==
    [][(~CycleStep /\ lastCmd'.from \notin ALLOWED_USER_IDS) => cfg_file' = cfg_file]_vars


(* ---------- C25 ---------- *)

\* C25: the config of a running crawl is a complete value of config.json: the
\* constructor that succeeds has read a file that no write had open, and its config
\* is that file (or the default it created); a constructor that reads the file
\* while a write has it open fails, and fetch_new_apartments returns None
C25_NoPartialConfig ==
    /\ [](CrawlInFlight => config.st = "ok")
    /\ [][(pc \in InitPositions) /\ pc' = "page"
            => /\ config' = cfg_file'
               /\ pc = "init" => /\ cfg_file.st = "ok"
                                 /\ cmd_pc \notin {"start_open", "set_open"}
                                 /\ config' = cfg_file
               /\ pc # "init" => pc = "cfg_save" /\ config' = DefaultConfig]_vars
    /\ [][pc = "init" /\ pc' # "init" /\ cfg_file.st = "partial"
            => pc' = "result" /\ new_apts'.none /\ config' = NoConfig]_vars

\* the constructor read config.json while /set had it open: the crawl returned
\* None without a request, the write is still in progress
C25_Witness ==
    /\ pc = "result"
    /\ new_apts.none
    /\ crawlLog.fetched = <<>>
    /\ cfg_file.st = "partial"
    /\ upd_config.st = "ok"


(* ---------- C26 ---------- *)

\* the page loop has just handled a page that _parse_page returned as a list
PageHandled == pc \in {"pace", "result"} /\ crawlLog.fetched # <<>> /\ ~new_apts.none

\* C26: a page gives as many listings as it has complete rows; the rows without
\* data-id and the rows on which _parse_apartment raises are dropped. A page
\* without a complete row, with or without rows, ends the crawl with what the
\* pages before it gave. A page with a complete row never ends the crawl before
\* max_pages and never makes it fail.
C26_AllDefectivePageIsEmptyPage ==
    PageHandled =>
        /\ Len(crawlLog.last) = crawlLog.raw_valid
        /\ crawlLog.raw_valid <= crawlLog.raw_ids
        /\ crawlLog.raw_ids <= crawlLog.raw_rows
        /\ crawlLog.raw_valid = 0 =>
              /\ pc = "result"
              /\ new_apts.apts = crawlLog.before
        /\ crawlLog.raw_valid > 0 =>
              \/ pc = "pace"
              \/ pc = "result" /\ Len(crawlLog.fetched) = crawlLog.maxp

\* page 2 of 3 had two rows, one without data-id and one with a data-id and no
\* link: the crawl returned the listings of page 1 and page 3 was not requested
C26_Witness ==
    /\ pc = "result"
    /\ ~new_apts.none
    /\ crawlLog.maxp = 3
    /\ crawlLog.fetched = <<1, 2>>
    /\ crawlLog.raw_rows = 2
    /\ crawlLog.raw_ids = 1
    /\ crawlLog.raw_valid = 0
    /\ new_apts.apts # <<>>


(* ---------- C27 ---------- *)

\* the max_pages of the config the running crawl holds
ConfiguredMaxPages ==
    IF "max_pages" \in config.top THEN config.max_pages ELSE max_pages_default

\* the _parse_page calls the running crawl can still make
RendererCallsLeft ==
    CASE pc = "page" -> max_pages - page + 1
      [] pc = "pace" -> max_pages - page
      [] OTHER -> 0

\* the send_message calls the delivery loop can still make
SendCallsLeft ==
    LET after == (Len(new_apts.apts) - idx) * max_retries
    IN CASE pc = "loop" -> (Len(new_apts.apts) - idx + 1) * max_retries
         [] pc \in {"send", "backoff"} -> after + (max_retries - retries)
         [] pc \in {"delay", "commit"} -> after
         [] OTHER -> 0

\* C27: a crawl requests at most max_pages pages and a send_apt call makes at most
\* max_retries send_message calls, one send_apt call per listing of the crawl
\* result at most; every request and every send uses up a budget that is never
\* negative; every step of a cycle brings it nearer to the poll sleep, and a cycle
\* that has not reached the poll sleep can take a step
C27_BoundedCallsThenSleep ==
    /\ [](CrawlInFlight => crawlLog.maxp = ConfiguredMaxPages)
    /\ [](Len(crawlLog.fetched) <= crawlLog.maxp)
    /\ [](attempts <= max_retries)
    /\ [](pc \in {"loop", "send", "backoff", "delay", "commit"}
            => NoRepeat(attemptedCycle) /\ Len(attemptedCycle) <= Len(new_apts.apts))
    /\ [](RendererCallsLeft >= 0 /\ SendCallsLeft >= 0)
    /\ [][Len(crawlLog'.fetched) > Len(crawlLog.fetched)
            => RendererCallsLeft' < RendererCallsLeft]_vars
    /\ [][attempts' > attempts => SendCallsLeft' < SendCallsLeft]_vars
    /\ [][pc \notin {"load", "sleep"}
            => Phase' < Phase \/ (Phase' = Phase /\ StepsLeft' < StepsLeft)]_vars
    /\ [](pc # "sleep" => ENABLED <<NextLive>>_vars)
    /\ [](Phase = 1 <=> pc = "sleep")

\* the last listing of the crawl result was refused max_retries times; the loop
\* over new_apts is at its end and the poll sleep follows
C27_Witness ==
    /\ pc = "loop"
    /\ idx > Len(new_apts.apts)
    /\ Len(new_apts.apts) = 2
    /\ attempts = max_retries
    /\ nRateLimited = max_retries
    /\ PrevId \in failedCycle


(* ---------- C28 ---------- *)

\* C28: a /set command is answered "set" exactly if it has a parameter and a value
\* of digits, the file exists, and the parameter is a key of search_params; then
\* the file is what the handler read with that key holding the value sent, and
\* nothing else of it has changed. It is answered "not set" exactly if the
\* parameter is no key of search_params (max_pages and city are none). Whatever
\* the answer is other than "set", the file is unchanged: no value, a value that
\* is no number, an unknown parameter, no file.
C28_SetChangesOnlyNamedKey ==
    [][SetAnswered =>
         LET p == lastCmd'.param
             v == lastCmd'.value
             r == lastCmd'.reply
             before == lastCmd'.before
             wellformed == NumParts(p, v) = 3 /\ IsDigit(v)
             known == before.st = "ok" /\ p \in DOMAIN before.search_params
         IN /\ r = "set" <=> (wellformed /\ known)
            /\ r = "not set" <=> (wellformed /\ before.st = "ok" /\ ~known)
            /\ r \in {"usage", "not a number"} <=> ~wellformed
            /\ r = "set" =>
                  /\ cfg_file'.st = "ok"
                  /\ cfg_file'.search_params[p] = ParseInt(v)
                  /\ DOMAIN cfg_file'.search_params = DOMAIN before.search_params
                  /\ \A k \in DOMAIN before.search_params \ {p} :
                        cfg_file'.search_params[k] = before.search_params[k]
                  /\ [cfg_file' EXCEPT !.search_params = before.search_params] = before
            /\ r # "set" => cfg_file' = before]_vars


(* ---------- C29 ---------- *)

\* C29: outside fetch_new_apartments no Chrome session of this process is open
C29_NoBrowserLeftOpen ==
    pc \notin InitPositions \cup {"page", "pace"} => open_sessions = 0


(* ---------- C30 ---------- *)

\* C30: on the same page outcomes and the same config, parse_all_pages of
\* parser_playwright.py is at every step where parse_all_pages of parser.py is:
\* it has fetched the same pages and collected the same listings in the same
\* order, and when one has returned the other has returned the same result
C30_SameCrawlControl ==
    /\ pc \in {"page", "pace"} =>
          /\ ~crawlLog.pw.returned
          /\ crawlLog.pw.max_pages = max_pages
          /\ crawlLog.pw.fetched = crawlLog.fetched
          /\ crawlLog.pw.all_apartments = all_apartments
          /\ crawlLog.pw.seen_ids = seen_ids
          /\ crawlLog.pw.page_num = IF pc = "pace" THEN page + 1 ELSE page
    /\ (pc = "result" /\ crawlLog.maxp > 0) =>
          /\ crawlLog.pw.returned
          /\ crawlLog.pw.fetched = crawlLog.fetched
          /\ crawlLog.pw.result = new_apts

\* both variants have fetched two pages and returned one listing: the second
\* page repeated the listing of the first
C30_Witness ==
    /\ pc = "result"
    /\ crawlLog.fetched = <<1, 2>>
    /\ crawlLog.before # <<>>
    /\ crawlLog.last # <<>>
    /\ ~new_apts.none
    /\ Len(new_apts.apts) = 1
    /\ crawlLog.pw.returned
    /\ crawlLog.pw.fetched = <<1, 2>>
    /\ crawlLog.pw.result = new_apts

====
